---- MODULE Spec2Model ----
(***************************************************************************)
(* Model of the COVID-19 sample dashboard: scripts/data_gen.py (generator  *)
(* and writer) and scripts/viz.py (reader and renderer).                   *)
(*                                                                         *)
(* Python values are modelled as follows.                                  *)
(*   str       a sequence of one-character strings                         *)
(*   int       an integer                                                  *)
(*   float     a decimal fraction [num, den] in lowest decimal form        *)
(*   datetime  a record [year, month, day] (every datetime of the program  *)
(*             is at midnight)                                             *)
(*   None / an absent file   the empty sequence; a present value v is <<v>>*)
(***************************************************************************)
EXTENDS Integers, Sequences, FiniteSets, TLC

\* ------------------------------------------------------------------ bounds
\* How many times each script is invoked in one behaviour.
MaxGenRuns == 2
MaxVizRuns == 2
\* create_summary_stats called directly: longest argument list and largest count.
MaxArgLen == 5
MaxCount == 1

\* ------------------------------------------------------- sequence helpers
Min(a, b) == IF a < b THEN a ELSE b

RECURSIVE SumSeq(_)
\* Python's sum() over a list.
SumSeq(s) == IF s = <<>> THEN 0 ELSE s[1] + SumSeq(Tail(s))

RECURSIVE MaxSeq(_)
\* Python's max() over a non-empty list.
MaxSeq(s) ==
    IF Len(s) = 1 THEN s[1]
    ELSE LET m == MaxSeq(Tail(s)) IN IF s[1] > m THEN s[1] ELSE m

RECURSIVE MinSeq(_)
\* Python's min() over a non-empty list.
MinSeq(s) ==
    IF Len(s) = 1 THEN s[1]
    ELSE LET m == MinSeq(Tail(s)) IN IF s[1] < m THEN s[1] ELSE m

\* The slice s[-n:]: the last n elements, or all of s when it is shorter.
LastN(s, n) == SubSeq(s, Len(s) - Min(n, Len(s)) + 1, Len(s))

\* ------------------------------------------------------------ text of ints
Digits == <<"0", "1", "2", "3", "4", "5", "6", "7", "8", "9">>
DigitSet == {Digits[k] : k \in 1..10}
DigitValue(c) == (CHOOSE k \in 1..10 : Digits[k] = c) - 1

RECURSIVE NatToText(_)
NatToText(n) ==
    IF n < 10 THEN <<Digits[n + 1]>>
    ELSE NatToText(n \div 10) \o <<Digits[(n % 10) + 1]>>

\* str(n) for an int, as to_csv writes an int64 cell.
IntToText(n) == IF n < 0 THEN <<"-">> \o NatToText(0 - n) ELSE NatToText(n)

RECURSIVE TextToNat(_)
TextToNat(t) ==
    IF t = <<>> THEN 0
    ELSE 10 * TextToNat(SubSeq(t, 1, Len(t) - 1)) + DigitValue(t[Len(t)])

IsNatText(t) == Len(t) > 0 /\ \A i \in 1..Len(t) : t[i] \in DigitSet
IsIntText(t) == IsNatText(t) \/ (Len(t) > 1 /\ t[1] = "-" /\ IsNatText(Tail(t)))

\* int(t) for a cell read_csv recognises as an integer.
TextToInt(t) == IF t[1] = "-" THEN 0 - TextToNat(Tail(t)) ELSE TextToNat(t)

\* n zero-padded to w digits (%02d, %03d).
RECURSIVE PadNat(_, _)
PadNat(n, w) ==
    LET t == NatToText(n) IN
    IF Len(t) >= w THEN t ELSE <<"0">> \o PadNat(n, w - 1)

\* ---------------------------------------------------------------- floats
RECURSIVE Pow10(_)
Pow10(k) == IF k = 0 THEN 1 ELSE 10 * Pow10(k - 1)

RECURSIVE Decimal(_, _)
\* The float num/den, den a power of ten, without trailing zero digits.
Decimal(num, den) ==
    IF den > 1 /\ num % 10 = 0 THEN Decimal(num \div 10, den \div 10)
    ELSE [num |-> num, den |-> den]

RECURSIVE FracDigits(_, _)
FracDigits(r, den) ==
    IF den = 1 THEN <<>>
    ELSE <<Digits[((r * 10) \div den) + 1]>> \o FracDigits((r * 10) % den, den \div 10)

\* repr(x) of a non-negative float, as to_csv writes a float64 cell: the
\* shortest decimal that reads back as x, always with a fractional part.
FloatRepr(x) ==
    NatToText(x.num \div x.den) \o <<".">>
        \o (IF x.den = 1 THEN <<"0">> ELSE FracDigits(x.num % x.den, x.den))

DotAt(t) == CHOOSE i \in 1..Len(t) : t[i] = "."

IsFloatText(t) ==
    /\ \E i \in 1..Len(t) : t[i] = "."
    /\ IsNatText(SubSeq(t, 1, DotAt(t) - 1))
    /\ IsNatText(SubSeq(t, DotAt(t) + 1, Len(t)))

\* float(t) for a cell read_csv recognises as a decimal number.
TextToFloat(t) ==
    LET whole == SubSeq(t, 1, DotAt(t) - 1)
        frac == SubSeq(t, DotAt(t) + 1, Len(t))
    IN Decimal(TextToNat(whole \o frac), Pow10(Len(frac)))

\* ------------------------------------------------------------- datetimes
IsLeap(y) == (y % 4 = 0 /\ y % 100 # 0) \/ y % 400 = 0

DaysInMonth(y, m) ==
    IF m = 2 THEN (IF IsLeap(y) THEN 29 ELSE 28)
    ELSE IF m \in {4, 6, 9, 11} THEN 30 ELSE 31

RECURSIVE DaysBeforeMonth(_, _)
\* The days of year y before its month m.
DaysBeforeMonth(y, m) ==
    IF m = 1 THEN 0 ELSE DaysBeforeMonth(y, m - 1) + DaysInMonth(y, m - 1)

DaysInYear(y) == IF IsLeap(y) THEN 366 ELSE 365

RECURSIVE FromDayOfYear(_, _)
\* The date that is day number n (from 1) counted from 1 January of year y.
FromDayOfYear(y, n) ==
    IF n > DaysInYear(y) THEN FromDayOfYear(y + 1, n - DaysInYear(y))
    ELSE LET m == CHOOSE k \in 1..12 :
                    /\ DaysBeforeMonth(y, k) < n
                    /\ n <= DaysBeforeMonth(y, k) + DaysInMonth(y, k)
         IN [year |-> y, month |-> m, day |-> n - DaysBeforeMonth(y, m)]

\* d + timedelta(days=n), n >= 0.
AddDays(d, n) == FromDayOfYear(d.year, DaysBeforeMonth(d.year, d.month) + d.day + n)

\* d + timedelta(weeks=w).
AddWeeks(d, w) == AddDays(d, 7 * w)

\* A midnight datetime as to_csv writes it, and strftime('%Y-%m-%d').
FormatDate(d) ==
    PadNat(d.year, 4) \o <<"-">> \o PadNat(d.month, 2) \o <<"-">> \o PadNat(d.day, 2)

\* pd.to_datetime of a 'YYYY-MM-DD' string.
ToDatetime(t) ==
    [year |-> TextToNat(SubSeq(t, 1, 4)),
     month |-> TextToNat(SubSeq(t, 6, 7)),
     day |-> TextToNat(SubSeq(t, 9, 10))]

\* ------------------------------------------- data_gen.py: the generator
\* The week labels of generate_static_covid_data, 'Jan 1' .. 'Apr 30'.
week_labels ==
    <<<<"J", "a", "n", " ", "1">>,
       <<"J", "a", "n", " ", "8">>,
       <<"J", "a", "n", " ", "1", "5">>,
       <<"J", "a", "n", " ", "2", "2">>,
       <<"J", "a", "n", " ", "2", "9">>,
       <<"F", "e", "b", " ", "5">>,
       <<"F", "e", "b", " ", "1", "2">>,
       <<"F", "e", "b", " ", "1", "9">>,
       <<"F", "e", "b", " ", "2", "6">>,
       <<"M", "a", "r", " ", "5">>,
       <<"M", "a", "r", " ", "1", "2">>,
       <<"M", "a", "r", " ", "1", "9">>,
       <<"M", "a", "r", " ", "2", "6">>,
       <<"A", "p", "r", " ", "2">>,
       <<"A", "p", "r", " ", "9">>,
       <<"A", "p", "r", " ", "1", "6">>,
       <<"A", "p", "r", " ", "2", "3">>,
       <<"A", "p", "r", " ", "3", "0">>>>

\* The cases table with the last week mistyped (1900 for 19000).
cases_LastWeekTypo ==
    <<45000, 52000, 61000, 48000, 39000,
      35000, 42000, 38000, 31000, 28000,
      25000, 22000, 26000, 30000, 27000,
      24000, 21000, 1900>>

\* The cases table of generate_static_covid_data.
cases ==
    <<45000, 52000, 61000, 48000, 39000,
      35000, 42000, 38000, 31000, 28000,
      25000, 22000, 26000, 30000, 27000,
      24000, 21000, 19000>>

\* The deaths table of generate_static_covid_data.
deaths ==
    <<820, 950, 1100, 1200, 980,
      750, 680, 720, 650, 580,
      520, 460, 500, 580, 520,
      480, 420, 380>>

\* datetime(2025, 1, 1)
start_date == [year |-> 2025, month |-> 1, day |-> 1]

\* The dates stepped by timedelta(days=i) instead of timedelta(weeks=i).
dates_DailyStep == [k \in 1..18 |-> AddDays(start_date, k - 1)]

\* for i in range(18): dates.append(start_date + timedelta(weeks=i))
dates == [k \in 1..18 |-> AddWeeks(start_date, k - 1)]

\* What generate_static_covid_data returns: dates, week_labels, cases, deaths.
generate_static_covid_data ==
    [dates |-> dates, week_labels |-> week_labels, cases |-> cases, deaths |-> deaths]

\* The generator functions data_gen.py defines for its callers to choose from.
GenerationStrategies == {"static"}

\* ------------------------------------ data_gen.py: the summary calculator
\* The locals create_summary_stats computes from its arguments (and then
\* does not return): the two 28-day sums and the rate as the exact ratio
\* 100 * deaths / cases.
SummaryLocals(c, d) ==
    [total_cases_28d |-> SumSeq(LastN(c, 4)),
     total_deaths_28d |-> SumSeq(LastN(d, 4)),
     case_fatality_rate |->
        [num |-> 100 * SumSeq(LastN(d, 4)), den |-> SumSeq(LastN(c, 4))]]

\* create_summary_stats(cases, deaths): the int division raises
\* ZeroDivisionError when the last four cases sum to zero; otherwise the
\* function returns the literal record of the HTML page.
create_summary_stats(c, d) ==
    IF SummaryLocals(c, d).total_cases_28d = 0
    THEN [raised |-> "ZeroDivisionError", value |-> <<>>]
    ELSE [raised |-> "",
          value |-> <<[total_cases_28d |-> 25463,
                       total_deaths_28d |-> 1458,
                       case_fatality_rate |-> Decimal(57, 10),
                       reporting_countries |-> 89]>>]

\* A summary calculator that takes the last four by reversing its lists in place.
ArgsAfterSummary_Reversing(c, d) ==
    [cases |-> [i \in 1..Len(c) |-> c[Len(c) + 1 - i]],
     deaths |-> [i \in 1..Len(d) |-> d[Len(d) + 1 - i]]]

\* The argument lists after create_summary_stats has run: it only reads them.
ArgsAfterSummary(c, d) == [cases |-> c, deaths |-> d]

\* ------------------------------------------------- pandas: tables and CSV
Range(s) == {s[i] : i \in 1..Len(s)}
IndexOf(s, x) == CHOOSE i \in 1..Len(s) : s[i] = x

\* pd.DataFrame({'date': ..., 'week_label': ..., 'cases': ..., 'deaths': ...})
SeriesFrame(g) ==
    [columns |-> <<"date", "week_label", "cases", "deaths">>,
     dtypes |-> [date |-> "datetime64", week_label |-> "object",
                 cases |-> "int64", deaths |-> "int64"],
     data |-> [date |-> g.dates, week_label |-> g.week_labels,
               cases |-> g.cases, deaths |-> g.deaths]]

\* pd.DataFrame([stats]): one row, the columns in the dict's order.
StatsFrame(st) ==
    [columns |-> <<"total_cases_28d", "total_deaths_28d",
                   "case_fatality_rate", "reporting_countries">>,
     dtypes |-> [total_cases_28d |-> "int64", total_deaths_28d |-> "int64",
                 case_fatality_rate |-> "float64", reporting_countries |-> "int64"],
     data |-> [total_cases_28d |-> <<st.total_cases_28d>>,
               total_deaths_28d |-> <<st.total_deaths_28d>>,
               case_fatality_rate |-> <<st.case_fatality_rate>>,
               reporting_countries |-> <<st.reporting_countries>>]]

NRows(df) == Len(df.data[df.columns[1]])

\* One cell as to_csv writes it.
FormatCell(dtype, v) ==
    CASE dtype = "int64" -> IntToText(v)
      [] dtype = "float64" -> FloatRepr(v)
      [] dtype = "datetime64" -> FormatDate(v)
      [] OTHER -> v

\* df.to_csv(path) without index=False: the row index is written as a first,
\* unnamed column.
ToCsv_WithIndex(df) ==
    [header |-> <<"Unnamed: 0">> \o df.columns,
     rows |-> [i \in 1..NRows(df) |->
                <<NatToText(i - 1)>> \o
                [j \in 1..Len(df.columns) |->
                    FormatCell(df.dtypes[df.columns[j]], df.data[df.columns[j]][i])]]]

\* df.to_csv(path, index=False): a header line and one line per row.
ToCsv(df) ==
    [header |-> df.columns,
     rows |-> [i \in 1..NRows(df) |->
                [j \in 1..Len(df.columns) |->
                    FormatCell(df.dtypes[df.columns[j]], df.data[df.columns[j]][i])]]]

\* The dtype read_csv infers for a column from its cells.
InferDtype(cells) ==
    IF \A i \in 1..Len(cells) : IsIntText(cells[i]) THEN "int64"
    ELSE IF \A i \in 1..Len(cells) : IsIntText(cells[i]) \/ IsFloatText(cells[i])
         THEN "float64"
    ELSE "object"

ParseCell(dtype, t) ==
    CASE dtype = "int64" -> TextToInt(t)
      [] dtype = "float64" ->
            (IF IsIntText(t) THEN Decimal(TextToNat(t), 1) ELSE TextToFloat(t))
      [] OTHER -> t

\* pd.read_csv(path): the first line names the columns, the dtypes are inferred.
ReadCsv(file) ==
    LET Cells(c) ==
            [i \in 1..Len(file.rows) |-> file.rows[i][IndexOf(file.header, c)]]
    IN [columns |-> file.header,
        dtypes |-> [c \in Range(file.header) |-> InferDtype(Cells(c))],
        data |-> [c \in Range(file.header) |->
                    [i \in 1..Len(file.rows) |->
                        ParseCell(InferDtype(Cells(c)), Cells(c)[i])]]]

\* df['date'] = pd.to_datetime(df['date'])
WithDatetime(df) ==
    [df EXCEPT !.dtypes.date = "datetime64",
               !.data.date = [i \in 1..Len(df.data.date) |-> ToDatetime(df.data.date[i])]]

\* ------------------------------------------------------ numpy: sample.npy
\* np.array(week_labels, dtype='U10') keeps at most 10 characters of each label.
AsU10(labels) ==
    [i \in 1..Len(labels) |-> SubSeq(labels[i], 1, Min(10, Len(labels[i])))]

\* The data_dict save_numpy_data builds and returns.
DataDict(c, d, labels) ==
    [week_labels |-> AsU10(labels), cases |-> c, deaths |-> d,
     weeks_count |-> Len(labels),
     total_cases |-> SumSeq(c), total_deaths |-> SumSeq(d),
     max_cases |-> MaxSeq(c), max_deaths |-> MaxSeq(d),
     min_cases |-> MinSeq(c), min_deaths |-> MinSeq(d)]

\* np.save(filename, data_dict): a dict becomes a 0-d object array, stored pickled.
NpSave(obj) == [dtype |-> "object", value |-> obj]

\* save_numpy_data(cases, deaths, week_labels, filename): the file it writes.
save_numpy_data(c, d, labels) == NpSave(DataDict(c, d, labels))

\* The lists passed to save_numpy_data after the call: it only reads them.
ArgsAfterSaveNumpy(c, d, labels) == [cases |-> c, deaths |-> d, week_labels |-> labels]

\* np.load(path) with allow_pickle left at the installed NumPy's default:
\* an object array is refused with ValueError unless pickles are allowed.
NpLoad(file, allow_pickle) ==
    IF file.dtype = "object" /\ ~allow_pickle
    THEN [raised |-> "ValueError", value |-> <<>>]
    ELSE [raised |-> "", value |-> <<file.value>>]

\* --------------------------------------------------- viz.py: the renderer
\* f"{n:,.0f}" of an integer count.
RECURSIVE FormatThousands(_)
FormatThousands(n) ==
    IF n < 1000 THEN NatToText(n)
    ELSE FormatThousands(n \div 1000) \o <<",">> \o PadNat(n % 1000, 3)

\* f"{x:.1f}%" of a non-negative float.
FormatPercent1(x) ==
    LET tenths == (20 * x.num + x.den) \div (2 * x.den)
    IN NatToText(tenths \div 10) \o <<".">> \o NatToText(tenths % 10) \o <<"%">>

\* The four formatted values of the summary table and of the metric cards.
StatCells(st) ==
    <<FormatThousands(st.data.total_cases_28d[1]),
      FormatThousands(st.data.total_deaths_28d[1]),
      FormatPercent1(st.data.case_fatality_rate[1]),
      NatToText(st.data.reporting_countries[1])>>

\* create_dashboard_figure(df, stats): four traces over the week labels and
\* the summary table.
create_dashboard_figure(d, st) ==
    [traces |-> <<[name |-> "Weekly Cases", x |-> d.data.week_label, y |-> d.data.cases],
                  [name |-> "Weekly Deaths", x |-> d.data.week_label, y |-> d.data.deaths],
                  [name |-> "Cases", x |-> d.data.week_label, y |-> d.data.cases],
                  [name |-> "Deaths", x |-> d.data.week_label, y |-> d.data.deaths]>>,
     table |-> StatCells(st)]

\* create_dash_app(df, stats): the metric cards and the main figure.
create_dash_app(d, st) ==
    [cards |-> StatCells(st), figure |-> create_dashboard_figure(d, st)]

\* The files of the project: three written by data_gen.py under data/, two
\* written by viz.py under outputs/.
DataFiles == {"data/dataframe.csv", "data/dataframe2.csv", "data/sample.npy"}
OutputFiles == {"outputs/covid_dashboard.html", "outputs/screenshot.png"}

\* Where viz.py is started from: its paths are relative to the working
\* directory, data_gen.py's are relative to the project root.
WorkingDirs == {"project_root", "elsewhere"}

\* load_data without its except clause: FileNotFoundError propagates.
load_data_Uncaught(fs, cwd, allow_pickle) ==
    LET Missing(p) == cwd # "project_root" \/ fs[p] = <<>>
    IN IF \E p \in DataFiles : Missing(p)
       THEN [outcome |-> "raised", raised |-> "FileNotFoundError",
             df |-> <<>>, stats_df |-> <<>>, np_data |-> <<>>, out |-> <<>>]
       ELSE [outcome |-> "returned", raised |-> "",
             df |-> <<WithDatetime(ReadCsv(fs["data/dataframe.csv"][1]))>>,
             stats_df |-> <<ReadCsv(fs["data/dataframe2.csv"][1])>>,
             np_data |-> <<fs["data/sample.npy"][1].value>>, out |-> <<>>]

\* load_data() on file system fs from working directory cwd: the files are
\* read in order, the first missing one raises FileNotFoundError, which is
\* caught (message printed, None returned); any other exception propagates.
load_data(fs, cwd, allow_pickle) ==
    LET Missing(p) == cwd # "project_root" \/ fs[p] = <<>>
        NotFound(d, st) ==
            [outcome |-> "returned_none", raised |-> "FileNotFoundError",
             df |-> d, stats_df |-> st, np_data |-> <<>>,
             out |-> <<"Error: FileNotFoundError",
                       "Please run data_gen.py first to generate the data files.">>]
    IN IF Missing("data/dataframe.csv") THEN NotFound(<<>>, <<>>)
       ELSE LET d == <<WithDatetime(ReadCsv(fs["data/dataframe.csv"][1]))>> IN
       IF Missing("data/dataframe2.csv") THEN NotFound(d, <<>>)
       ELSE LET st == <<ReadCsv(fs["data/dataframe2.csv"][1])>> IN
       IF Missing("data/sample.npy") THEN NotFound(d, st)
       ELSE LET np == NpLoad(fs["data/sample.npy"][1], allow_pickle) IN
       IF np.raised # ""
       THEN [outcome |-> "raised", raised |-> np.raised,
             df |-> d, stats_df |-> st, np_data |-> <<>>, out |-> <<>>]
       ELSE [outcome |-> "returned", raised |-> "",
             df |-> d, stats_df |-> st, np_data |-> np.value, out |-> <<>>]

\* ------------------------------------------------------------------ state
VARIABLES
    files,            \* path -> <<>> (absent) or <<content>>
    np_allow_pickle,  \* the installed NumPy's default for np.load(allow_pickle)
    gen_pc,           \* position of data_gen.main
    gen_runs,         \* invocations of data_gen.py so far
    series,           \* data_gen.main: dates, week_labels, cases, deaths
    stats,            \* data_gen.main: stats
    last_run,         \* series and stats of the previous data_gen.py run
    viz_pc,           \* position of viz.main
    viz_runs,         \* invocations of viz.py so far
    viz_cwd,          \* working directory of the viz.py run
    df,               \* load_data: df, once read
    stats_df,         \* load_data: stats_df, once read
    np_data,          \* load_data: np_data, once read
    viz_exc,          \* the exception the viz.py run has met (e), "" when none
    fig,              \* viz.main: fig
    app,              \* viz.main: app
    viz_out,          \* what the viz.py run has printed
    call_cases,       \* a direct call create_summary_stats(cases, deaths):
    call_deaths,      \*   its two arguments,
    call_pc,          \*   its position,
    call_result       \*   and what it returned or raised

genVars == <<gen_pc, gen_runs, series, stats, last_run>>
vizVars == <<viz_pc, viz_runs, viz_cwd, df, stats_df, np_data, viz_exc, fig, app, viz_out>>
callVars == <<call_cases, call_deaths, call_pc, call_result>>
vars == <<files, np_allow_pickle, genVars, vizVars, callVars>>

\* What data_gen.py leaves in each data file.
WrittenSeriesCsv == ToCsv(SeriesFrame(generate_static_covid_data))
WrittenStatsCsv ==
    ToCsv(StatsFrame(create_summary_stats(cases, deaths).value[1]))
WrittenNpy == save_numpy_data(cases, deaths, week_labels)

WrittenContent(p) ==
    CASE p = "data/dataframe.csv" -> <<WrittenSeriesCsv>>
      [] p = "data/dataframe2.csv" -> <<WrittenStatsCsv>>
      [] p = "data/sample.npy" -> <<WrittenNpy>>

\* The file systems a run can start from: each data file is absent or left
\* by an earlier data_gen.py run, no output file exists yet.
InitialFiles ==
    {[p \in DataFiles \cup OutputFiles |->
        IF p \in present THEN WrittenContent(p) ELSE <<>>] : present \in SUBSET DataFiles}

InitGen ==
    /\ gen_pc = "start"
    /\ gen_runs = 1
    /\ series = <<>>
    /\ stats = <<>>
    /\ last_run = <<>>

InitViz ==
    /\ viz_pc = "start"
    /\ viz_runs = 1
    /\ viz_cwd = "project_root"
    /\ df = <<>>
    /\ stats_df = <<>>
    /\ np_data = <<>>
    /\ viz_exc = ""
    /\ fig = <<>>
    /\ app = <<>>
    /\ viz_out = <<>>

InitCall ==
    /\ call_cases = <<>>
    /\ call_deaths = <<>>
    /\ call_pc = "idle"
    /\ call_result = <<>>

Init ==
    /\ files \in InitialFiles
    /\ np_allow_pickle \in BOOLEAN
    /\ InitGen
    /\ InitViz
    /\ InitCall

\* ------------------------------------------------------- data_gen.main()
\* Lines 93-111: generate the static series and the summary.
GenGenerate ==
    /\ gen_pc = "start"
    /\ LET g == generate_static_covid_data
           r == create_summary_stats(g.cases, g.deaths)
           a == ArgsAfterSummary(g.cases, g.deaths)
       IN /\ series' = <<[g EXCEPT !.cases = a.cases, !.deaths = a.deaths]>>
          /\ stats' = r.value
          /\ gen_pc' = IF r.raised # "" THEN "crashed" ELSE "generated"
    /\ UNCHANGED <<files, np_allow_pickle, gen_runs, last_run, vizVars, callVars>>

\* Lines 113-124: df.to_csv(data/dataframe.csv).
GenSaveSeriesCsv ==
    /\ gen_pc = "generated"
    /\ files' = [files EXCEPT !["data/dataframe.csv"] = <<ToCsv(SeriesFrame(series[1]))>>]
    /\ gen_pc' = "csv_saved"
    /\ UNCHANGED <<np_allow_pickle, gen_runs, series, stats, last_run, vizVars, callVars>>

\* Lines 126-130: stats_df.to_csv(data/dataframe2.csv).
GenSaveStatsCsv ==
    /\ gen_pc = "csv_saved"
    /\ files' = [files EXCEPT !["data/dataframe2.csv"] = <<ToCsv(StatsFrame(stats[1]))>>]
    /\ gen_pc' = "stats_saved"
    /\ UNCHANGED <<np_allow_pickle, gen_runs, series, stats, last_run, vizVars, callVars>>

\* Lines 132-157: save_numpy_data(data/sample.npy), then the printed summary.
GenSaveNumpy ==
    /\ gen_pc = "stats_saved"
    /\ LET g == series[1]
           a == ArgsAfterSaveNumpy(g.cases, g.deaths, g.week_labels)
       IN /\ files' = [files EXCEPT !["data/sample.npy"] =
                          <<save_numpy_data(g.cases, g.deaths, g.week_labels)>>]
          /\ series' = <<[g EXCEPT !.cases = a.cases, !.deaths = a.deaths,
                                   !.week_labels = a.week_labels]>>
    /\ gen_pc' = "done"
    /\ UNCHANGED <<np_allow_pickle, gen_runs, stats, last_run, vizVars, callVars>>

\* data_gen.py is run again.
GenInvoke ==
    /\ gen_pc \in {"done", "crashed"}
    /\ gen_runs < MaxGenRuns
    /\ gen_runs' = gen_runs + 1
    /\ last_run' = <<[series |-> series, stats |-> stats]>>
    /\ series' = <<>>
    /\ stats' = <<>>
    /\ gen_pc' = "start"
    /\ UNCHANGED <<files, np_allow_pickle, vizVars, callVars>>

\* ------------------------------------------------------------ viz.main()
\* Lines 255-262: load_data(), and the early return when it gave None.
VizLoad ==
    /\ viz_pc = "start"
    /\ \E cwd \in WorkingDirs :
        LET r == load_data(files, cwd, np_allow_pickle) IN
        /\ viz_cwd' = cwd
        /\ df' = r.df
        /\ stats_df' = r.stats_df
        /\ np_data' = r.np_data
        /\ viz_exc' = r.raised
        /\ viz_pc' = CASE r.outcome = "returned" -> "loaded"
                       [] r.outcome = "returned_none" -> "returned"
                       [] OTHER -> "crashed"
        /\ viz_out' = IF r.outcome = "returned"
                      THEN r.out \o <<"Data loaded successfully">>
                      ELSE r.out
    /\ UNCHANGED <<files, np_allow_pickle, genVars, viz_runs, fig, app, callVars>>

\* Line 265: fig = create_dashboard_figure(df, stats_df).
VizCreateFigure ==
    /\ viz_pc = "loaded"
    /\ fig' = <<create_dashboard_figure(df[1], stats_df[1])>>
    /\ viz_pc' = "figure"
    /\ UNCHANGED <<files, np_allow_pickle, genVars, viz_runs, viz_cwd, df, stats_df,
                   np_data, viz_exc, app, viz_out, callVars>>

\* save_static_outputs, lines 237-242: fig.write_html.
VizWriteHtml ==
    /\ viz_pc = "figure"
    /\ files' = [files EXCEPT !["outputs/covid_dashboard.html"] = fig]
    /\ viz_out' = Append(viz_out, "Saved interactive dashboard")
    /\ viz_pc' = "html_saved"
    /\ UNCHANGED <<np_allow_pickle, genVars, viz_runs, viz_cwd, df, stats_df,
                   np_data, viz_exc, fig, app, callVars>>

\* save_static_outputs without its try/except: a failing fig.write_image
\* ends the run.
VizWriteImage_Uncaught ==
    /\ viz_pc = "html_saved"
    /\ \E raises \in BOOLEAN :
        IF raises
        THEN /\ viz_exc' = "ExportError"
             /\ viz_pc' = "crashed"
             /\ UNCHANGED <<files, viz_out>>
        ELSE /\ viz_exc' = viz_exc
             /\ viz_pc' = "static_saved"
             /\ viz_out' = Append(viz_out, "Saved screenshot")
             /\ files' = [files EXCEPT !["outputs/screenshot.png"] = fig]
    /\ UNCHANGED <<np_allow_pickle, genVars, viz_runs, viz_cwd, df, stats_df,
                   np_data, fig, app, callVars>>

\* save_static_outputs, lines 244-250: fig.write_image succeeds, or raises
\* and the exception is caught and reported.
VizWriteImage ==
    /\ viz_pc = "html_saved"
    /\ \E raises \in BOOLEAN :
        IF raises
        THEN /\ viz_exc' = "ExportError"
             /\ viz_out' = Append(viz_out, "Could not save PNG screenshot")
             /\ UNCHANGED files
        ELSE /\ viz_exc' = viz_exc
             /\ viz_out' = Append(viz_out, "Saved screenshot")
             /\ files' = [files EXCEPT !["outputs/screenshot.png"] = fig]
    /\ viz_pc' = "static_saved"
    /\ UNCHANGED <<np_allow_pickle, genVars, viz_runs, viz_cwd, df, stats_df,
                   np_data, fig, app, callVars>>

\* Lines 270-277: the banner and app = create_dash_app(df, stats_df).
VizCreateApp ==
    /\ viz_pc = "static_saved"
    /\ app' = <<create_dash_app(df[1], stats_df[1])>>
    /\ viz_out' = Append(viz_out, "STARTING DASH APPLICATION")
    /\ viz_pc' = "app_created"
    /\ UNCHANGED <<files, np_allow_pickle, genVars, viz_runs, viz_cwd, df, stats_df,
                   np_data, viz_exc, fig, callVars>>

\* Lines 279-280: app.run_server(debug=True, port=8050) starts serving.
VizRunServer ==
    /\ viz_pc = "app_created"
    /\ viz_pc' = "serving"
    /\ UNCHANGED <<files, np_allow_pickle, genVars, viz_runs, viz_cwd, df, stats_df,
                   np_data, viz_exc, fig, app, viz_out, callVars>>

\* Lines 281-282: Ctrl+C stops the server.
VizKeyboardInterrupt ==
    /\ viz_pc = "serving"
    /\ viz_out' = Append(viz_out, "Dashboard server stopped")
    /\ viz_pc' = "stopped"
    /\ UNCHANGED <<files, np_allow_pickle, genVars, viz_runs, viz_cwd, df, stats_df,
                   np_data, viz_exc, fig, app, callVars>>

\* viz.py is run again.
VizInvoke ==
    /\ viz_pc \in {"returned", "crashed", "stopped"}
    /\ viz_runs < MaxVizRuns
    /\ viz_runs' = viz_runs + 1
    /\ viz_pc' = "start"
    /\ df' = <<>>
    /\ stats_df' = <<>>
    /\ np_data' = <<>>
    /\ viz_exc' = ""
    /\ fig' = <<>>
    /\ app' = <<>>
    /\ viz_out' = <<>>
    /\ UNCHANGED <<files, np_allow_pickle, genVars, viz_cwd, callVars>>

Next ==
    \/ GenGenerate
    \/ GenSaveSeriesCsv
    \/ GenSaveStatsCsv
    \/ GenSaveNumpy
    \/ GenInvoke
    \/ VizLoad
    \/ VizCreateFigure
    \/ VizWriteHtml
    \/ VizWriteImage
    \/ VizCreateApp
    \/ VizRunServer
    \/ VizKeyboardInterrupt
    \/ VizInvoke

Spec == Init /\ [][Next]_vars

\* ------------------------------- create_summary_stats called on any lists
\* Lists of up to MaxArgLen weekly counts, each in 0..MaxCount.
ArgLists == UNION {[1..n -> 0..MaxCount] : n \in 0..MaxArgLen}

InitStats ==
    /\ files = [p \in DataFiles \cup OutputFiles |-> <<>>]
    /\ np_allow_pickle = FALSE
    /\ InitGen
    /\ InitViz
    /\ call_cases \in ArgLists
    /\ call_deaths \in ArgLists
    /\ call_pc = "call"
    /\ call_result = <<>>

\* stats = create_summary_stats(call_cases, call_deaths)
CallCreateSummaryStats ==
    /\ call_pc = "call"
    /\ LET r == create_summary_stats(call_cases, call_deaths)
           a == ArgsAfterSummary(call_cases, call_deaths)
       IN /\ call_result' = <<r>>
          /\ call_cases' = a.cases
          /\ call_deaths' = a.deaths
          /\ call_pc' = IF r.raised # "" THEN "raised" ELSE "returned"
    /\ UNCHANGED <<files, np_allow_pickle, genVars, vizVars>>

NextStats == CallCreateSummaryStats

SpecStats == InitStats /\ [][NextStats]_vars

\* ================================================================ claims
\* ---------------------------------------------------------------- C1
\* C1: create_summary_stats applied to the fixed table returns the values
\* computed from the last 4 weeks (91000 cases, 1800 deaths, rate
\* 100*1800/91000), not literal published values.
C1_SummaryIsComputed ==
    stats # <<>> =>
        /\ stats[1].total_cases_28d = 91000
        /\ stats[1].total_deaths_28d = 1800
        /\ stats[1].total_cases_28d =
              SummaryLocals(series[1].cases, series[1].deaths).total_cases_28d
        /\ stats[1].total_deaths_28d =
              SummaryLocals(series[1].cases, series[1].deaths).total_deaths_28d
        /\ stats[1].case_fatality_rate.num * 91000
              = 100 * 1800 * stats[1].case_fatality_rate.den

\* ---------------------------------------------------------------- C2
\* C2: the fixed-table generator returns exactly 18 entries in each of its
\* four sequences, with the published values: week 1 cases 45000 and deaths
\* 820, week 18 cases 19000 and deaths 380, the last four weeks' cases
\* 27000, 24000, 21000, 19000 and deaths 520, 480, 420, 380.
C2_FixedTable ==
    series # <<>> =>
        LET g == series[1] IN
        /\ Len(g.dates) = 18
        /\ Len(g.week_labels) = 18
        /\ Len(g.cases) = 18
        /\ Len(g.deaths) = 18
        /\ g.cases[1] = 45000
        /\ g.deaths[1] = 820
        /\ g.cases[18] = 19000
        /\ g.deaths[18] = 380
        /\ SubSeq(g.cases, 14, 18) = <<30000, 27000, 24000, 21000, 19000>>
        /\ SubSeq(g.deaths, 15, 18) = <<520, 480, 420, 380>>

\* The generator has returned its table to data_gen.main.
C2_Witness == gen_pc = "generated" /\ series # <<>> /\ Len(series[1].cases) = 18

\* ---------------------------------------------------------------- C3
AllDataFilesPresent == \A p \in DataFiles : files[p] # <<>>

\* C3: when viz.main runs from the project root after data_gen.main has
\* completed, so that all three files are there as written, load_data
\* raises nothing and returns the series table and the summary table.
C3_LoadAfterWriterSucceeds ==
    [][(/\ viz_pc = "start"
        /\ viz_pc' # "start"
        /\ viz_cwd' = "project_root"
        /\ gen_pc = "done"
        /\ AllDataFilesPresent)
       => (/\ viz_pc' = "loaded"
           /\ viz_exc' = ""
           /\ df' # <<>>
           /\ stats_df' # <<>>)]_vars

\* ---------------------------------------------------------------- C4
\* C4: when viz.main is started while a data file is missing (or from a
\* directory without data/), load_data reports FileNotFoundError and
\* returns None, viz.main returns at once: the step builds no figure and no
\* app and writes no file, and the returned run never does afterwards.
C4_MissingFileReturnsCleanly ==
    [][/\ (/\ viz_pc = "start"
           /\ viz_pc' # "start"
           /\ (viz_cwd' # "project_root" \/ ~AllDataFilesPresent))
          => (/\ viz_pc' = "returned"
              /\ viz_exc' = "FileNotFoundError"
              /\ viz_out' = <<"Error: FileNotFoundError",
                              "Please run data_gen.py first to generate the data files.">>
              /\ fig' = <<>>
              /\ app' = <<>>
              /\ files' = files)
       /\ viz_pc = "returned"
          => (/\ viz_pc' \in {"returned", "start"}
              /\ fig' = <<>>
              /\ app' = <<>>
              /\ \A p \in OutputFiles : files'[p] = files[p])]_vars

\* viz.py, run from the project root, read the series file, found a later
\* file missing and returned.
C4_Witness ==
    /\ viz_pc = "returned"
    /\ viz_cwd = "project_root"
    /\ viz_exc = "FileNotFoundError"
    /\ df # <<>>
    /\ fig = <<>>

\* ---------------------------------------------------------------- C5
\* C5: when the last 4 cases passed to create_summary_stats sum to zero,
\* the call raises no exception: it returns an error outcome distinct from
\* a summary record.
C5_ZeroSumIsReported ==
    (call_pc # "call" /\ SumSeq(LastN(call_cases, 4)) = 0) =>
        /\ call_pc = "returned"
        /\ call_result[1].raised = ""

\* ---------------------------------------------------------------- C6
\* Two tables agree: the same columns in the same order, and for every
\* column the same dtype and the same values row by row.
SameFrame(a, b) ==
    /\ a.columns = b.columns
    /\ \A c \in Range(b.columns) :
        /\ a.dtypes[c] = b.dtypes[c]
        /\ Len(a.data[c]) = Len(b.data[c])
        /\ \A i \in 1..Len(b.data[c]) : a.data[c][i] = b.data[c][i]

\* C6: every table load_data has read back from the two CSV files equals
\* the table data_gen.main wrote: all 18 rows in order and every column of
\* the series (the date column as a datetime again), and the one summary row.
C6_CsvRoundTrip ==
    /\ df # <<>> =>
        /\ SameFrame(df[1], SeriesFrame(generate_static_covid_data))
        /\ NRows(df[1]) = 18
        /\ series # <<>> => SameFrame(df[1], SeriesFrame(series[1]))
    /\ stats_df # <<>> =>
        /\ SameFrame(stats_df[1], StatsFrame(create_summary_stats(cases, deaths).value[1]))
        /\ NRows(stats_df[1]) = 1
        /\ stats # <<>> => SameFrame(stats_df[1], StatsFrame(stats[1]))

\* data_gen.main has written its files and load_data has returned both tables.
C6_Witness ==
    /\ gen_pc = "done"
    /\ viz_pc = "loaded"
    /\ df # <<>>
    /\ stats_df # <<>>

\* ---------------------------------------------------------------- C7
\* C7: the generator offers both a random mode and the fixed-table mode for
\* the caller to select, and no generated value is below the floors of the
\* random mode (cases 15000, deaths 200).
C7_BothModesSupported ==
    series # <<>> =>
        /\ {"random", "static"} \subseteq GenerationStrategies
        /\ \A i \in 1..Len(series[1].cases) : series[1].cases[i] >= 15000
        /\ \A i \in 1..Len(series[1].deaths) : series[1].deaths[i] >= 200

\* ---------------------------------------------------------------- C8
\* C8: once fig.write_image has raised, the run is not aborted: the warning
\* is printed, the HTML file is on disk (it is written before the attempt),
\* and main can still create the app and start the server.
C8_ImageFailureDoesNotAbort ==
    /\ viz_pc = "html_saved" => files["outputs/covid_dashboard.html"] # <<>>
    /\ viz_exc = "ExportError" =>
        /\ viz_pc \in {"static_saved", "app_created", "serving", "stopped"}
        /\ files["outputs/covid_dashboard.html"] # <<>>
        /\ "Could not save PNG screenshot" \in Range(viz_out)
        /\ "Saved screenshot" \notin Range(viz_out)
        /\ viz_pc = "static_saved" => ENABLED VizCreateApp
        /\ viz_pc = "app_created" => (app # <<>> /\ ENABLED VizRunServer)
        /\ viz_pc \in {"serving", "stopped"} => app # <<>>

\* The image export failed and the server is running all the same.
C8_Witness ==
    /\ viz_exc = "ExportError"
    /\ viz_pc = "serving"
    /\ files["outputs/screenshot.png"] = <<>>

\* ---------------------------------------------------------------- C9
\* Days from a fixed epoch to d, counted year by year.
DayNumber(d) ==
    365 * d.year + ((d.year - 1) \div 4) - ((d.year - 1) \div 100)
        + ((d.year - 1) \div 400) + DaysBeforeMonth(d.year, d.month) + d.day

MonthAbbr ==
    <<<<"J", "a", "n">>, <<"F", "e", "b">>, <<"M", "a", "r">>, <<"A", "p", "r">>,
      <<"M", "a", "y">>, <<"J", "u", "n">>, <<"J", "u", "l">>, <<"A", "u", "g">>,
      <<"S", "e", "p">>, <<"O", "c", "t">>, <<"N", "o", "v">>, <<"D", "e", "c">>>>

\* The short month-and-day label of a date: 'Jan 1', 'Mar 5'.
ShortLabel(d) == MonthAbbr[d.month] \o <<" ">> \o NatToText(d.day)

\* The dates of the rows of a series CSV file, as written.
CsvDates(file) == [i \in 1..Len(file.rows) |-> ToDatetime(file.rows[i][1])]

\* C9: the first date is 2025-01-01, each next date is exactly 7 days
\* later, every week label is the short label of its date ('Jan 1' at
\* index 0, 'Mar 5' at 9, 'Apr 30' at 17), and the series file has one row
\* per week with the dates ascending.
C9_WeeklyDatesAndLabels ==
    /\ series # <<>> =>
        LET g == series[1] IN
        /\ g.dates[1] = [year |-> 2025, month |-> 1, day |-> 1]
        /\ \A i \in 1..17 : DayNumber(g.dates[i + 1]) = DayNumber(g.dates[i]) + 7
        /\ \A i \in 1..18 : g.week_labels[i] = ShortLabel(g.dates[i])
        /\ g.week_labels[1] = <<"J", "a", "n", " ", "1">>
        /\ g.week_labels[10] = <<"M", "a", "r", " ", "5">>
        /\ g.week_labels[18] = <<"A", "p", "r", " ", "3", "0">>
    /\ files["data/dataframe.csv"] # <<>> =>
        LET f == files["data/dataframe.csv"][1] IN
        /\ Len(f.rows) = 18
        /\ \A i \in 1..17 :
              DayNumber(CsvDates(f)[i + 1]) = DayNumber(CsvDates(f)[i]) + 7
        /\ \A i \in 1..18 : f.rows[i][2] = ShortLabel(CsvDates(f)[i])

\* The series has been generated and written to the series file.
C9_Witness ==
    /\ gen_pc = "csv_saved"
    /\ series # <<>>
    /\ files["data/dataframe.csv"] # <<>>

====
